---- MODULE Spec2Model ----
(***************************************************************************)
(* Boostly credit ledger (src/src/main.py, models.py, db.py, audit.py,     *)
(* auth.py).  The committed database is the shared state; every request    *)
(* handler runs in its own thread with its own SQLAlchemy session          *)
(* (db.get_session), so a handler is a sequence of steps, one per database *)
(* round trip: the SELECTs it issues read the committed rows (pysqlite     *)
(* opens no transaction for a SELECT), and s.commit() flushes the pending  *)
(* INSERTs and the UPDATEs of the changed columns in one write             *)
(* transaction.                                                            *)
(***************************************************************************)
EXTENDS Integers, Sequences, FiniteSets, TLC

\* ---------------------------------------------------------------- bounds
NUsers == 2
NThreads == 2
MaxOps == 3
MaxPeriod == 2
MaxDay == 2
MaxOverlaps == 1
MaxAuditFailures == 1

\* ------------------------------------------------------ program constants
DefaultGrant == 100
MonthlyLimit == 100
ResetBase == 100
CarryCap == 50
VoucherRate == 5
AdminId == 1

Users == 1..NUsers
Threads == 1..NThreads
\* limit of GET /leaderboard (main.py:281: gt=0, le=100); NUsers + 1 is more
\* than there are rows
Limits == 1..(NUsers + 1)
\* receiver_id as it reaches the handler (schemas.py: gt=0); NUsers + 1 has no row
ReceiverIds == 1..(NUsers + 1)
\* credits of a RecognizeRequest (schemas.py: gt=0, le=100)
Credits == {10, 90, 95}
\* credits of a RedeemRequest (schemas.py: gt=0, le=10000)
RedeemCredits == {10, 20}

\* a date is (calendar period = year and month, day of the month); None is NoDate
NoDate == [period |-> 0, day |-> 0]

\* models.User defaults
NewUser == [grant_balance |-> DefaultGrant, sent_this_month |-> 0,
            redeemable_balance |-> 0, total_received |-> 0,
            last_reset_date |-> NoDate]

NoRows == [u \in {} |-> NewUser]

Idle == [op |-> "none", pc |-> "idle", actor |-> 0, receiver_id |-> 0,
         credits |-> 0, rec_id |-> 0, today |-> NoDate, rows |-> NoRows,
         status |-> "", ret |-> 0, limit |-> 0, pos |-> 0, board |-> <<>>]

VARIABLES today, users, recognitions, endorsements, redemptions, audit_log,
          req, nops, noverlap, faults

vars == <<today, users, recognitions, endorsements, redemptions, audit_log,
          req, nops, noverlap, faults>>

db == <<users, recognitions, endorsements, redemptions, audit_log>>

\* the state after create_db_and_tables and the registration of the users;
\* f is the number of writes the store may still fail
InitWith(f) ==
    /\ today = [period |-> 1, day |-> 1]
    /\ users = [u \in Users |-> NewUser]
    /\ recognitions = <<>>
    /\ endorsements = <<>>
    /\ redemptions = <<>>
    /\ audit_log = <<>>
    /\ req = [p \in Threads |-> Idle]
    /\ nops = 0
    /\ noverlap = 0
    /\ faults = f

\* a store that never fails an audit write
Init == InitWith(0)

\* the state after user 1 and user 2 have each sent the other 10 credits, one
\* POST /recognize after the other
InitFunded ==
    /\ today = [period |-> 1, day |-> 1]
    /\ users = [u \in Users |->
                  IF u \in {1, 2}
                    THEN [NewUser EXCEPT !.grant_balance = DefaultGrant - 10,
                                         !.sent_this_month = 10,
                                         !.redeemable_balance = 10,
                                         !.total_received = 10]
                    ELSE NewUser]
    /\ recognitions = <<[sender_id |-> 1, receiver_id |-> 2, credits |-> 10],
                        [sender_id |-> 2, receiver_id |-> 1, credits |-> 10]>>
    /\ endorsements = <<>>
    /\ redemptions = <<>>
    /\ audit_log = <<[action |-> "recognize", user_id |-> 1, entity_id |-> 1,
                      users_reset |-> 0],
                     [action |-> "recognize", user_id |-> 2, entity_id |-> 2,
                      users_reset |-> 0]>>
    /\ req = [p \in Threads |-> Idle]
    /\ nops = 0
    /\ noverlap = 0
    /\ faults = 0

\* a store that may fail audit writes
InitFaulty == InitWith(MaxAuditFailures)

\* ------------------------------------------------------------- helpers
Max(a, b) == IF a >= b THEN a ELSE b

Min(a, b) == IF a <= b THEN a ELSE b

\* no handler has a reply pending.  Reply touches only the handler's own
\* record, so it is taken before any other step: every interleaving is
\* equivalent to one in which a finished handler returns at once
Quiet == \A q \in Threads : req[q].pc # "done"

\* some handler is between its first read and its reply
Busy == \E q \in Threads : req[q].pc # "idle"

\* the thread pool hands a new request to the first free worker thread
Free(p) ==
    /\ Quiet
    /\ req[p].pc = "idle"
    /\ \A q \in Threads : q < p => req[q].pc # "idle"
    /\ nops < MaxOps

\* thread p takes a request and runs it up to its first database round trip,
\* which leaves it in r.  nops counts the requests that got past their first
\* checks, noverlap those of them admitted while another one was running
Begin(p, r) ==
    /\ (r.pc # "done" /\ Busy) => noverlap < MaxOverlaps
    /\ req' = [req EXCEPT ![p] = r]
    /\ nops' = IF r.pc = "done" THEN nops ELSE nops + 1
    /\ noverlap' = IF r.pc # "done" /\ Busy THEN noverlap + 1 ELSE noverlap

\* the handler returns its response (or raises its HTTPException)
Reply(p) ==
    /\ req[p].pc = "done"
    /\ req' = [req EXCEPT ![p] = Idle]
    /\ UNCHANGED <<today, db, nops, noverlap, faults>>

\* the UPDATE of one column at flush: only a column whose in-memory value
\* differs from the loaded one is written
WriteCol(committed, loaded, new) == IF new # loaded THEN new ELSE committed

\* flush of one dirty User row
WriteRow(committed, loaded, new) ==
    [grant_balance |-> WriteCol(committed.grant_balance, loaded.grant_balance, new.grant_balance),
     sent_this_month |-> WriteCol(committed.sent_this_month, loaded.sent_this_month, new.sent_this_month),
     redeemable_balance |-> WriteCol(committed.redeemable_balance, loaded.redeemable_balance, new.redeemable_balance),
     total_received |-> WriteCol(committed.total_received, loaded.total_received, new.total_received),
     last_reset_date |-> WriteCol(committed.last_reset_date, loaded.last_reset_date, new.last_reset_date)]

Flush_NoWhere(p, new) ==
    IF DOMAIN new = {} THEN users
    ELSE LET v == CHOOSE w \in DOMAIN new : \A x \in DOMAIN new : w <= x
         IN [u \in Users |->
               IF u \in DOMAIN new
                 THEN WriteRow(users[u], req[p].rows[u], new[u])
                 ELSE WriteRow(users[u], req[p].rows[v], new[v])]

\* s.commit() of the session of thread p whose in-memory rows are new
Flush(p, new) ==
    [u \in Users |-> IF u \in DOMAIN new
                       THEN WriteRow(users[u], req[p].rows[u], new[u])
                       ELSE users[u]]

\* the dates date.today() can return: a month has MaxDay days
Dates == [period : 1..MaxPeriod, day : 1..MaxDay]

\* d is not before e
NotBefore(d, e) == d.period > e.period \/ (d.period = e.period /\ d.day >= e.day)

\* ---------------------------------------------------------- recognize
SelfRecognition_Off(sender, receiver_id) == FALSE

\* line 124
SelfRecognition(sender, receiver_id) == sender = receiver_id

Insufficient_Empty(row, credits) == row.grant_balance <= 0

\* line 128
Insufficient(row, credits) == row.grant_balance < credits

OverLimit_NoCredits(row, credits) == row.sent_this_month > MonthlyLimit

\* line 130
OverLimit(row, credits) == row.sent_this_month + credits > MonthlyLimit

\* lines 125, 129, 131, 134: the HTTPException raised for each refusal
HttpError(status) ==
    CASE status = "SelfRecognition" ->
           [code |-> 400, detail |-> "Cannot send credits to yourself"]
      [] status = "InsufficientGrantBalance" ->
           [code |-> 400, detail |-> "Insufficient grant balance to send"]
      [] status = "MonthlyLimitExceeded" ->
           [code |-> 400, detail |-> "Monthly sending limit exceeded"]
      [] status = "ReceiverNotFound" ->
           [code |-> 404, detail |-> "Receiver not found"]

RecognizeStart_LimitFirst(p, sender, receiver_id, credits) ==
    /\ Free(p)
    /\ LET r0 == [Idle EXCEPT !.op = "recognize", !.actor = sender,
                              !.receiver_id = receiver_id, !.credits = credits]
           row == users[sender]
       IN Begin(p,
            IF SelfRecognition(sender, receiver_id)
              THEN [r0 EXCEPT !.pc = "done", !.status = "SelfRecognition"]
            ELSE IF OverLimit(row, credits)
              THEN [r0 EXCEPT !.pc = "done", !.status = "MonthlyLimitExceeded"]
            ELSE IF Insufficient(row, credits)
              THEN [r0 EXCEPT !.pc = "done", !.status = "InsufficientGrantBalance"]
            ELSE [r0 EXCEPT !.pc = "get_receiver",
                            !.rows = [u \in {sender} |-> row]])
    /\ UNCHANGED <<today, db, faults>>

\* lines 124-131: self check, refresh of the sender row, balance and limit checks
RecognizeStart(p, sender, receiver_id, credits) ==
    /\ Free(p)
    /\ LET r0 == [Idle EXCEPT !.op = "recognize", !.actor = sender,
                              !.receiver_id = receiver_id, !.credits = credits]
           row == users[sender]
       IN Begin(p,
            IF SelfRecognition(sender, receiver_id)
              THEN [r0 EXCEPT !.pc = "done", !.status = "SelfRecognition"]
            ELSE IF Insufficient(row, credits)
              THEN [r0 EXCEPT !.pc = "done", !.status = "InsufficientGrantBalance"]
            ELSE IF OverLimit(row, credits)
              THEN [r0 EXCEPT !.pc = "done", !.status = "MonthlyLimitExceeded"]
            ELSE [r0 EXCEPT !.pc = "get_receiver",
                            !.rows = [u \in {sender} |-> row]])
    /\ UNCHANGED <<today, db, faults>>

RecognizeGetReceiver_AuditFirst(p) ==
    /\ Quiet
    /\ req[p].op = "recognize" /\ req[p].pc = "get_receiver"
    /\ LET r == req[p]
       IN req' = [req EXCEPT ![p] =
            IF r.receiver_id \notin Users
              THEN [r EXCEPT !.pc = "done", !.status = "ReceiverNotFound"]
              ELSE [r EXCEPT !.pc = "audit", !.rec_id = Len(recognitions) + 1]]
    /\ UNCHANGED <<today, db, nops, noverlap, faults>>

\* lines 132-134: receiver = s.get(User, req.receiver_id)
RecognizeGetReceiver(p) ==
    /\ Quiet
    /\ req[p].op = "recognize" /\ req[p].pc = "get_receiver"
    /\ LET r == req[p]
       IN req' = [req EXCEPT ![p] =
            IF r.receiver_id \notin Users
              THEN [r EXCEPT !.pc = "done", !.status = "ReceiverNotFound"]
              ELSE [r EXCEPT !.pc = "commit",
                             !.rows = [u \in {r.actor, r.receiver_id} |->
                                         IF u = r.actor THEN r.rows[u] ELSE users[u]]]]
    /\ UNCHANGED <<today, db, nops, noverlap, faults>>

RecognizeRows_SenderOnly(r) ==
    [u \in DOMAIN r.rows |->
        IF u = r.actor
          THEN [r.rows[u] EXCEPT !.grant_balance = @ - r.credits,
                                 !.sent_this_month = @ + r.credits]
          ELSE r.rows[u]]

\* lines 136-141: the in-memory rows of the session before the commit
RecognizeRows(r) ==
    [u \in DOMAIN r.rows |->
        IF u = r.actor
          THEN [r.rows[u] EXCEPT !.grant_balance = @ - r.credits,
                                 !.sent_this_month = @ + r.credits]
          ELSE [r.rows[u] EXCEPT !.redeemable_balance = @ + r.credits,
                                 !.total_received = @ + r.credits]]

\* lines 136-144: INSERT of the recognition, UPDATE of both rows, COMMIT
RecognizeCommit(p) ==
    /\ Quiet
    /\ req[p].op = "recognize" /\ req[p].pc = "commit"
    /\ LET r == req[p]
       IN /\ recognitions' = Append(recognitions,
                [sender_id |-> r.actor, receiver_id |-> r.receiver_id,
                 credits |-> r.credits])
          /\ users' = Flush(p, RecognizeRows(r))
          /\ req' = [req EXCEPT ![p] = [r EXCEPT !.pc = "audit",
                                                 !.rec_id = Len(recognitions) + 1,
                                                 !.ret = Len(recognitions) + 1]]
    /\ UNCHANGED <<today, endorsements, redemptions, audit_log, nops, noverlap, faults>>

\* audit.log_action (add, flush, failure swallowed) and the handler's second
\* s.commit(): a failed flush leaves no entry and has rolled the session's
\* transaction back, so the commit after it raises and the handler ends in
\* an internal error although the mutation is already committed
Audit(p, action, entity_id, fail) ==
    /\ Quiet
    /\ req[p].pc = "audit"
    /\ fail => faults > 0
    /\ faults' = IF fail THEN faults - 1 ELSE faults
    /\ audit_log' = IF fail THEN audit_log
                    ELSE Append(audit_log,
                           [action |-> action, user_id |-> req[p].actor,
                            entity_id |-> entity_id,
                            users_reset |-> IF action = "reset_month" THEN req[p].ret ELSE 0])
    /\ req' = [req EXCEPT ![p] = [@ EXCEPT !.pc = "done",
                                          !.status = IF fail THEN "InternalError" ELSE "ok"]]
    /\ UNCHANGED <<today, users, recognitions, endorsements, redemptions, nops, noverlap>>

\* lines 146-165
RecognizeAudit(p, fail) ==
    /\ req[p].op = "recognize"
    /\ Audit(p, "recognize", req[p].rec_id, fail)

\* ------------------------------------------------------------ endorse
\* the SELECT of line 176-177
Endorsed(rec_id, endorser) ==
    \E i \in 1..Len(endorsements) :
        endorsements[i].recognition_id = rec_id /\ endorsements[i].endorser_id = endorser

\* lines 169-179: id check, lookup of the recognition, lookup of a prior endorsement
EndorseStart(p, endorser, rec_id) ==
    /\ Free(p)
    /\ LET r0 == [Idle EXCEPT !.op = "endorse", !.actor = endorser, !.rec_id = rec_id]
       IN Begin(p,
            IF rec_id <= 0
              THEN [r0 EXCEPT !.pc = "done", !.status = "InvalidRecognitionId"]
            ELSE IF rec_id > Len(recognitions)
              THEN [r0 EXCEPT !.pc = "done", !.status = "RecognitionNotFound"]
            ELSE IF Endorsed(rec_id, endorser)
              THEN [r0 EXCEPT !.pc = "done", !.status = "DuplicateEndorsement"]
            ELSE [r0 EXCEPT !.pc = "commit"])
    /\ UNCHANGED <<today, db, faults>>

EndorseCommit_CreditsReceiver(p) ==
    /\ Quiet
    /\ req[p].op = "endorse" /\ req[p].pc = "commit"
    /\ endorsements' = Append(endorsements,
            [recognition_id |-> req[p].rec_id, endorser_id |-> req[p].actor])
    /\ users' = [users EXCEPT ![recognitions[req[p].rec_id].receiver_id].total_received = @ + 1]
    /\ req' = [req EXCEPT ![p] = [@ EXCEPT !.pc = "audit",
                                          !.ret = Len(endorsements) + 1]]
    /\ UNCHANGED <<today, recognitions, redemptions, audit_log, nops, noverlap, faults>>

\* lines 180-183: INSERT of the endorsement, COMMIT (the table has no unique key)
EndorseCommit(p) ==
    /\ Quiet
    /\ req[p].op = "endorse" /\ req[p].pc = "commit"
    /\ endorsements' = Append(endorsements,
            [recognition_id |-> req[p].rec_id, endorser_id |-> req[p].actor])
    /\ req' = [req EXCEPT ![p] = [@ EXCEPT !.pc = "audit",
                                          !.ret = Len(endorsements) + 1]]
    /\ UNCHANGED <<today, users, recognitions, redemptions, audit_log, nops, noverlap, faults>>

\* lines 185-200
EndorseAudit(p, fail) ==
    /\ req[p].op = "endorse"
    /\ Audit(p, "endorse", req[p].ret, fail)

\* ------------------------------------------------------------- redeem
RedeemShort_TotalReceived(row, credits) == row.total_received < credits

\* line 206
RedeemShort(row, credits) == row.redeemable_balance < credits

\* lines 204-207: refresh of the user row and balance check
RedeemStart(p, user, credits) ==
    /\ Free(p)
    /\ LET r0 == [Idle EXCEPT !.op = "redeem", !.actor = user, !.credits = credits]
           row == users[user]
       IN Begin(p,
            IF RedeemShort(row, credits)
              THEN [r0 EXCEPT !.pc = "done", !.status = "InsufficientRedeemableBalance"]
              ELSE [r0 EXCEPT !.pc = "commit", !.rows = [u \in {user} |-> row]])
    /\ UNCHANGED <<today, db, faults>>

\* line 208: the in-memory row of the session before the commit
RedeemRows(r) ==
    [u \in DOMAIN r.rows |-> [r.rows[u] EXCEPT !.redeemable_balance = @ - r.credits]]

\* line 209
VoucherValue(credits) == credits * VoucherRate

\* lines 208-213: UPDATE of the row, INSERT of the redemption, COMMIT
RedeemCommit(p) ==
    /\ Quiet
    /\ req[p].op = "redeem" /\ req[p].pc = "commit"
    /\ LET r == req[p]
       IN /\ users' = Flush(p, RedeemRows(r))
          /\ redemptions' = Append(redemptions,
                [user_id |-> r.actor, credits |-> r.credits,
                 value_in_inr |-> VoucherValue(r.credits)])
          /\ req' = [req EXCEPT ![p] = [r EXCEPT !.pc = "audit",
                                                 !.rec_id = Len(redemptions) + 1,
                                                 !.ret = VoucherValue(r.credits)]]
    /\ UNCHANGED <<today, recognitions, endorsements, audit_log, nops, noverlap, faults>>

\* lines 215-230
RedeemAudit(p, fail) ==
    /\ req[p].op = "redeem"
    /\ Audit(p, "redeem", req[p].rec_id, fail)

\* -------------------------------------------------------- reset_month
ResetDue_SameDate(row, day) ==
    ~(row.last_reset_date # NoDate /\ row.last_reset_date = day)

\* line 242, negated: the row is due for a reset in the period of day
ResetDue(row, day) ==
    ~(row.last_reset_date # NoDate /\ row.last_reset_date.period = day.period)

Carry_NoCap(grant_balance) == Max(0, grant_balance)

\* lines 244-245
Carry(grant_balance) == Min(CarryCap, Max(0, grant_balance))

ResetRow_KeepsSent(row, day) ==
    [row EXCEPT !.grant_balance = ResetBase + Carry(row.grant_balance),
                !.last_reset_date = day]

\* lines 244-249
ResetRow(row, day) ==
    [row EXCEPT !.grant_balance = ResetBase + Carry(row.grant_balance),
                !.sent_this_month = 0,
                !.last_reset_date = day]

\* lines 240-257: the in-memory rows of the session before the commit
ResetRows(r) ==
    [u \in DOMAIN r.rows |->
        IF ResetDue(r.rows[u], r.today) THEN ResetRow(r.rows[u], r.today) ELSE r.rows[u]]

ResetCount_All(r) == Cardinality(DOMAIN r.rows)

\* line 251
ResetCount(r) == Cardinality({u \in DOMAIN r.rows : ResetDue(r.rows[u], r.today)})

ResetStart_AnyActor(p, actor, day) ==
    /\ Free(p)
    /\ NotBefore(day, today)
    /\ Begin(p, [Idle EXCEPT !.op = "reset_month", !.actor = actor,
                             !.pc = "commit", !.today = day,
                             !.rows = [u \in Users |-> users[u]]])
    /\ today' = day
    /\ UNCHANGED <<db, faults>>

\* auth.get_current_admin_user, lines 234-236: admin check, today, SELECT of all users
\* day is what date.today() returns: the clock is read here only, so today
\* holds the latest date read and the clock never runs backwards
ResetStart(p, actor, day) ==
    /\ Free(p)
    /\ NotBefore(day, today)
    /\ LET r0 == [Idle EXCEPT !.op = "reset_month", !.actor = actor]
       IN /\ Begin(p,
               IF actor # AdminId
                 THEN [r0 EXCEPT !.pc = "done", !.status = "Forbidden"]
                 ELSE [r0 EXCEPT !.pc = "commit", !.today = day,
                                 !.rows = [u \in Users |-> users[u]]])
          /\ today' = IF actor # AdminId THEN today ELSE day
    /\ UNCHANGED <<db, faults>>

\* lines 240-259: the loop over the loaded rows and the COMMIT of the changed ones
ResetCommit(p) ==
    /\ Quiet
    /\ req[p].op = "reset_month" /\ req[p].pc = "commit"
    /\ LET r == req[p]
       IN /\ users' = Flush(p, ResetRows(r))
          /\ req' = [req EXCEPT ![p] = [r EXCEPT !.pc = "audit", !.ret = ResetCount(r)]]
    /\ UNCHANGED <<today, recognitions, endorsements, redemptions, audit_log, nops, noverlap, faults>>

\* lines 261-278
ResetAudit(p, fail) ==
    /\ req[p].op = "reset_month"
    /\ Audit(p, "reset_month", 0, fail)

\* -------------------------------------------------------- leaderboard
Before_IdDesc(a, b) ==
    \/ users[a].total_received > users[b].total_received
    \/ users[a].total_received = users[b].total_received /\ a > b

\* line 283, order_by(User.total_received.desc(), User.id.asc()): row a sorts
\* before row b
Before(a, b) ==
    \/ users[a].total_received > users[b].total_received
    \/ users[a].total_received = users[b].total_received /\ a < b

\* the rows S in the order of the ORDER BY
RECURSIVE Ordered(_)
Ordered(S) ==
    IF S = {} THEN <<>>
    ELSE LET first == CHOOSE a \in S : \A b \in S \ {a} : Before(a, b)
         IN <<first>> \o Ordered(S \ {first})

\* line 283: the ids of SELECT ... ORDER BY ... LIMIT limit
Top(limit) == SubSeq(Ordered(Users), 1, Min(limit, Cardinality(Users)))

\* line 286: count of the recognitions received by u
RecognitionCount(u) ==
    Cardinality({i \in 1..Len(recognitions) : recognitions[i].receiver_id = u})

\* lines 287-289: count of the endorsements of the recognitions received by u
EndorsementTotal(u) ==
    Cardinality({i \in 1..Len(endorsements) :
                    recognitions[endorsements[i].recognition_id].receiver_id = u})

\* lines 282-283: the SELECT of the listed users
LeaderboardStart(p, limit) ==
    /\ Free(p)
    /\ LET top == Top(limit)
           r0 == [Idle EXCEPT !.op = "leaderboard", !.limit = limit,
                     !.board = [i \in 1..Len(top) |->
                                  [id |-> top[i],
                                   total_received |-> users[top[i]].total_received,
                                   recognition_count |-> 0,
                                   endorsement_total |-> 0]]]
       IN Begin(p,
            IF Len(top) = 0
              THEN [r0 EXCEPT !.pc = "done", !.status = "ok"]
              ELSE [r0 EXCEPT !.pc = "rec_count", !.pos = 1])
    /\ UNCHANGED <<today, db, faults>>

\* line 286: the first SELECT of the loop body, for the user at position pos
LeaderboardRecCount(p) ==
    /\ Quiet
    /\ req[p].op = "leaderboard" /\ req[p].pc = "rec_count"
    /\ LET r == req[p]
       IN req' = [req EXCEPT ![p] =
            [r EXCEPT !.pc = "end_count",
                      !.board[r.pos].recognition_count =
                          RecognitionCount(r.board[r.pos].id)]]
    /\ UNCHANGED <<today, db, nops, noverlap, faults>>

\* lines 287-294: the second SELECT of the loop body; after the last user the
\* handler returns the list
LeaderboardEndCount(p) ==
    /\ Quiet
    /\ req[p].op = "leaderboard" /\ req[p].pc = "end_count"
    /\ LET r == req[p]
           b == [r.board EXCEPT ![r.pos].endorsement_total =
                                    EndorsementTotal(r.board[r.pos].id)]
       IN req' = [req EXCEPT ![p] =
            IF r.pos = Len(r.board)
              THEN [r EXCEPT !.board = b, !.pc = "done", !.status = "ok"]
              ELSE [r EXCEPT !.board = b, !.pc = "rec_count", !.pos = r.pos + 1]]
    /\ UNCHANGED <<today, db, nops, noverlap, faults>>

Next ==
    \/ \E p \in Threads : Reply(p)
    \/ \E p \in Threads, s \in Users, r \in ReceiverIds, c \in Credits :
          RecognizeStart(p, s, r, c)
    \/ \E p \in Threads : RecognizeGetReceiver(p)
    \/ \E p \in Threads : RecognizeCommit(p)
    \/ \E p \in Threads, f \in BOOLEAN : RecognizeAudit(p, f)
    \/ \E p \in Threads, e \in Users, i \in 0..(Len(recognitions) + 1) :
          EndorseStart(p, e, i)
    \/ \E p \in Threads : EndorseCommit(p)
    \/ \E p \in Threads, f \in BOOLEAN : EndorseAudit(p, f)
    \/ \E p \in Threads, u \in Users, c \in RedeemCredits : RedeemStart(p, u, c)
    \/ \E p \in Threads : RedeemCommit(p)
    \/ \E p \in Threads, f \in BOOLEAN : RedeemAudit(p, f)
    \/ \E p \in Threads, a \in Users, d \in Dates : ResetStart(p, a, d)
    \/ \E p \in Threads : ResetCommit(p)
    \/ \E p \in Threads, f \in BOOLEAN : ResetAudit(p, f)

Spec == Init /\ [][Next]_vars

SpecFaulty == InitFaulty /\ [][Next]_vars

\* db.get_session, lines 19-22: the handler of thread p is cut short between
\* two round trips (an exception raised by the store, or the process dying);
\* session.close() drops whatever the session has not committed, and the
\* caller gets no ok
Crash(p) ==
    /\ Quiet
    /\ req[p].pc \notin {"idle", "done"}
    /\ faults > 0
    /\ faults' = faults - 1
    /\ req' = [req EXCEPT ![p] = [@ EXCEPT !.pc = "done", !.status = "Aborted"]]
    /\ UNCHANGED <<today, db, nops, noverlap>>

NextCrash ==
    \/ Next
    \/ \E p \in Threads : Crash(p)

\* a store that may fail any round trip
SpecCrash == InitFaulty /\ [][NextCrash]_vars

\* the ledger operations on accounts that have already exchanged credits
SpecFunded == InitFunded /\ [][Next]_vars

\* ------------------------------------------------- request validation
\* receiver_id and credits as they arrive in the body of POST /recognize
RawReceiverIds == {0} \cup ReceiverIds

RawCredits == {0, 101} \cup Credits

\* credits as they arrive in the body of POST /redeem
RawRedeemCredits == {0, 10001} \cup RedeemCredits

RecognizeRequestValid_NoUpper(receiver_id, credits) ==
    receiver_id > 0 /\ credits > 0

RecognizeRequestValid_NoLower(receiver_id, credits) ==
    receiver_id > 0 /\ credits <= 100

\* schemas.RecognizeRequest: receiver_id gt=0, credits gt=0 le=100
RecognizeRequestValid(receiver_id, credits) ==
    receiver_id > 0 /\ credits > 0 /\ credits <= 100

\* schemas.RedeemRequest: credits gt=0 le=10000
RedeemRequestValid(credits) == credits > 0 /\ credits <= 10000

\* the body of a request failed the validation of its schema: the framework
\* answers with a validation error and the handler is not entered
Reject(p, r) ==
    /\ Free(p)
    /\ Begin(p, [r EXCEPT !.pc = "done", !.status = "ValidationError"])
    /\ UNCHANGED <<today, db, faults>>

\* POST /recognize: the body is validated as a RecognizeRequest, then
\* recognize is called with it
PostRecognize(p, sender, receiver_id, credits) ==
    IF RecognizeRequestValid(receiver_id, credits)
      THEN RecognizeStart(p, sender, receiver_id, credits)
      ELSE Reject(p, [Idle EXCEPT !.op = "recognize", !.actor = sender,
                                  !.receiver_id = receiver_id, !.credits = credits])

\* POST /redeem: the body is validated as a RedeemRequest, then redeem is
\* called with it
PostRedeem(p, user, credits) ==
    IF RedeemRequestValid(credits)
      THEN RedeemStart(p, user, credits)
      ELSE Reject(p, [Idle EXCEPT !.op = "redeem", !.actor = user,
                                  !.credits = credits])

NextRaw ==
    \/ Next
    \/ \E p \in Threads, s \in Users, r \in RawReceiverIds, c \in RawCredits :
          PostRecognize(p, s, r, c)
    \/ \E p \in Threads, u \in Users, c \in RawRedeemCredits : PostRedeem(p, u, c)

\* the ledger operations behind the validation of their request bodies
SpecRaw == Init /\ [][NextRaw]_vars

\* the ledger operations called one after the other: a request is taken
\* only when no handler is between its request and its reply
NextSerial ==
    \/ \E p \in Threads : Reply(p)
    \/ \E p \in Threads, s \in Users, r \in ReceiverIds, c \in Credits :
          ~Busy /\ RecognizeStart(p, s, r, c)
    \/ \E p \in Threads : RecognizeGetReceiver(p)
    \/ \E p \in Threads : RecognizeCommit(p)
    \/ \E p \in Threads, f \in BOOLEAN : RecognizeAudit(p, f)
    \/ \E p \in Threads, e \in Users, i \in 0..(Len(recognitions) + 1) :
          ~Busy /\ EndorseStart(p, e, i)
    \/ \E p \in Threads : EndorseCommit(p)
    \/ \E p \in Threads, f \in BOOLEAN : EndorseAudit(p, f)
    \/ \E p \in Threads, u \in Users, c \in RedeemCredits :
          ~Busy /\ RedeemStart(p, u, c)
    \/ \E p \in Threads : RedeemCommit(p)
    \/ \E p \in Threads, f \in BOOLEAN : RedeemAudit(p, f)
    \/ \E p \in Threads, a \in Users, d \in Dates :
          ~Busy /\ ResetStart(p, a, d)
    \/ \E p \in Threads : ResetCommit(p)
    \/ \E p \in Threads, f \in BOOLEAN : ResetAudit(p, f)

SpecSerial == Init /\ [][NextSerial]_vars

NextBoard ==
    \/ Next
    \/ \E p \in Threads, n \in Limits : LeaderboardStart(p, n)
    \/ \E p \in Threads : LeaderboardRecCount(p)
    \/ \E p \in Threads : LeaderboardEndCount(p)

\* the ledger operations together with GET /leaderboard
SpecBoard == Init /\ [][NextBoard]_vars

\* ------------------------------------------------------------- claims
\* thread p takes a request of kind op in this step
Starts(p, op) == req[p].pc = "idle" /\ req'[p].pc # "idle" /\ req'[p].op = op

\* the request of thread p has committed its mutation
Committed(p) ==
    \/ req[p].pc = "audit"
    \/ req[p].pc = "done" /\ req[p].status \in {"ok", "InternalError"}

RecognizeErrors ==
    {"SelfRecognition", "InsufficientGrantBalance", "MonthlyLimitExceeded",
     "ReceiverNotFound"}

\* C1: in every reachable state, whatever the interleaving of Recognize,
\* Endorse, Redeem and ResetMonth, every account has grant_balance >= 0,
\* redeemable_balance >= 0 and 0 <= sent_this_month <= 100.
C1_BalancesInRange ==
    \A u \in Users :
        /\ users[u].grant_balance >= 0
        /\ users[u].redeemable_balance >= 0
        /\ users[u].sent_this_month >= 0
        /\ users[u].sent_this_month <= 100

\* C1 witness: an account has spent its whole grant and its whole monthly
\* allowance, and the receiver has redeemed down to nothing.
C1_Witness ==
    /\ \E u \in Users : users[u].grant_balance = 0 /\ users[u].sent_this_month = 100
    /\ Len(recognitions) >= 2

\* C2 (as claimed): of two Recognize calls of 10 credits that both read the
\* same sender with grant_balance 10, never both succeed.
C2_ExactlyOneSucceeds ==
    \A p, q \in Threads :
        (/\ p # q
         /\ Committed(p) /\ Committed(q)
         /\ req[p].op = "recognize" /\ req[q].op = "recognize"
         /\ req[p].actor = req[q].actor
         /\ req[p].credits = 10 /\ req[q].credits = 10)
        => ~(/\ req[p].rows[req[p].actor].grant_balance = 10
             /\ req[q].rows[req[q].actor].grant_balance = 10)

\* C3 (as claimed): no state holds two endorsements with the same
\* (recognition_id, endorser_id).
C3_NoDuplicateEndorsement ==
    \A i, j \in 1..Len(endorsements) :
        i # j => \/ endorsements[i].recognition_id # endorsements[j].recognition_id
                 \/ endorsements[i].endorser_id # endorsements[j].endorser_id

\* C4: a Recognize whose sender is the receiver, whose sender has less grant
\* than the credits, whose sender would pass the monthly limit, or whose
\* receiver does not exist ends with an error, and no step of it up to that
\* error changes an account or adds a recognition.
C4_FailedRecognizeChangesNothing ==
    [][\A p \in Threads :
         /\ Starts(p, "recognize") =>
               /\ users' = users /\ recognitions' = recognitions
               /\ (\/ req'[p].actor = req'[p].receiver_id
                   \/ users[req'[p].actor].grant_balance < req'[p].credits
                   \/ users[req'[p].actor].sent_this_month + req'[p].credits > 100)
                  => req'[p].pc = "done" /\ req'[p].status \in RecognizeErrors
         /\ (req[p].op = "recognize" /\ req[p].pc = "get_receiver"
                /\ req'[p].pc # "get_receiver") =>
               /\ users' = users /\ recognitions' = recognitions
               /\ req[p].receiver_id \notin Users
                  => req'[p].pc = "done" /\ req'[p].status = "ReceiverNotFound"
         /\ (req[p].pc # "done" /\ req'[p].pc = "done"
                /\ req'[p].status \in RecognizeErrors) =>
               users' = users /\ recognitions' = recognitions
    ]_vars

\* C4 witness: a Recognize has just been refused for a missing receiver after
\* its sender passed the balance and limit checks, with recognitions on record.
C4_Witness ==
    \E p \in Threads :
        /\ req[p].op = "recognize" /\ req[p].pc = "done"
        /\ req[p].status = "ReceiverNotFound"
        /\ Len(recognitions) >= 1

\* thread p commits its request of kind op in this step
Commits(p, op) == req[p].op = op /\ req[p].pc = "commit" /\ req'[p].pc = "audit"

\* C5 (as claimed): the commit of a Recognize of c credits lowers the sender's
\* committed grant_balance by c, raises its sent_this_month by c, raises the
\* receiver's redeemable_balance and total_received by c, and leaves every
\* other account as it was.
C5_RecognizeTransfersExactly ==
    [][\A p \in Threads :
         Commits(p, "recognize") =>
           LET s == req[p].actor
               r == req[p].receiver_id
               c == req[p].credits
           IN /\ users'[s].grant_balance = users[s].grant_balance - c
              /\ users'[s].sent_this_month = users[s].sent_this_month + c
              /\ users'[r].redeemable_balance = users[r].redeemable_balance + c
              /\ users'[r].total_received = users[r].total_received + c
              /\ \A u \in Users \ {s, r} : users'[u] = users[u]
    ]_vars

\* C6 (as claimed; the receiver is taken to be another user): a Recognize of
\* 10 credits by a sender whose sent_this_month is 95 ends with
\* MonthlyLimitExceeded and changes nothing, whatever the grant_balance.
C6_AlwaysMonthlyLimitExceeded ==
    [][\A p \in Threads :
         (/\ Starts(p, "recognize")
          /\ req'[p].credits = 10
          /\ req'[p].actor # req'[p].receiver_id
          /\ users[req'[p].actor].sent_this_month = 95)
         => /\ req'[p].pc = "done"
            /\ req'[p].status = "MonthlyLimitExceeded"
            /\ UNCHANGED db
    ]_vars

\* C6 (amended): a Recognize of 10 credits by a sender whose sent_this_month
\* is 95 always ends with an error and changes nothing; the error is
\* SelfRecognition when the receiver is the sender, else
\* InsufficientGrantBalance when the grant_balance is below 10, and
\* MonthlyLimitExceeded only when the grant_balance is at least 10.
C6_RefusedByFirstFailedCheck ==
    [][\A p \in Threads :
         (/\ Starts(p, "recognize")
          /\ req'[p].credits = 10
          /\ users[req'[p].actor].sent_this_month = 95)
         => /\ req'[p].pc = "done"
            /\ req'[p].status =
                  IF req'[p].actor = req'[p].receiver_id THEN "SelfRecognition"
                  ELSE IF users[req'[p].actor].grant_balance < 10
                    THEN "InsufficientGrantBalance"
                  ELSE "MonthlyLimitExceeded"
            /\ UNCHANGED db
    ]_vars

\* C6 witness: a Recognize of 10 credits has just been refused with
\* MonthlyLimitExceeded for a sender at sent_this_month 95 that still has
\* at least 10 credits of grant.
C6_Witness ==
    \E p \in Threads :
        /\ req[p].op = "recognize" /\ req[p].pc = "done"
        /\ req[p].credits = 10
        /\ req[p].status = "MonthlyLimitExceeded"
        /\ users[req[p].actor].sent_this_month = 95
        /\ users[req[p].actor].grant_balance >= 10

\* C7 (as claimed): the commit of a Redeem of c credits lowers the user's
\* committed redeemable_balance by c, adds one redemption of c credits worth
\* c * 5, returns c * 5 and changes no other counter of any account.
C7_RedeemDeductsExactly ==
    [][\A p \in Threads :
         Commits(p, "redeem") =>
           LET u == req[p].actor
               c == req[p].credits
           IN /\ users'[u] = [users[u] EXCEPT !.redeemable_balance = @ - c]
              /\ \A v \in Users \ {u} : users'[v] = users[v]
              /\ redemptions' = Append(redemptions,
                    [user_id |-> u, credits |-> c, value_in_inr |-> c * 5])
              /\ req'[p].ret = c * 5
    ]_vars

\* C8: a Redeem of more credits than the user's committed redeemable_balance
\* ends with InsufficientRedeemableBalance, changes no account and adds no
\* redemption.
C8_RedeemBeyondBalanceRefused ==
    [][\A p \in Threads :
         (/\ Starts(p, "redeem")
          /\ req'[p].credits > users[req'[p].actor].redeemable_balance)
         => /\ req'[p].pc = "done"
            /\ req'[p].status = "InsufficientRedeemableBalance"
            /\ users' = users
            /\ redemptions' = redemptions
    ]_vars

\* C8 witness: a Redeem has just been refused for a user who has received
\* credits and already redeemed some of them.
C8_Witness ==
    \E p \in Threads :
        /\ req[p].op = "redeem" /\ req[p].pc = "done"
        /\ req[p].status = "InsufficientRedeemableBalance"
        /\ users[req[p].actor].total_received >= req[p].credits
        /\ Len(redemptions) >= 1

\* every row thread p loaded carries a reset date in the period of the date
\* the thread read
AllResetThisPeriod(p) ==
    \A u \in Users :
        /\ req[p].rows[u].last_reset_date # NoDate
        /\ req[p].rows[u].last_reset_date.period = req[p].today.period

\* C9: a ResetMonth that runs with nothing committed between its read and its
\* commit leaves every account dated in its period, and a ResetMonth that
\* finds every account dated in its period (the second call of the period)
\* changes no account and counts zero accounts reset.
C9_SecondResetChangesNothing ==
    [][\A p \in Threads :
         Commits(p, "reset_month") =>
           /\ req[p].rows = users =>
                 \A u \in Users :
                    users'[u].last_reset_date.period = req[p].today.period
           /\ AllResetThisPeriod(p) => users' = users /\ req'[p].ret = 0
    ]_vars

\* C9 witness: a second ResetMonth of the period, on a later day than the
\* first, has committed with zero accounts reset.
C9_Witness ==
    \E p \in Threads :
        /\ req[p].op = "reset_month" /\ req[p].pc = "audit"
        /\ req[p].ret = 0
        /\ AllResetThisPeriod(p)
        /\ \A u \in Users : users[u].last_reset_date.day < req[p].today.day

\* C10 (as claimed): the commit of a ResetMonth sets every account that is
\* due (no reset date, or one of another period) to grant_balance
\* 100 + min(50, max(0, g)) for its committed grant_balance g, sent_this_month
\* 0 and last_reset_date today, and leaves its other two counters alone.
C10_ResetCarriesForward ==
    [][\A p \in Threads :
         Commits(p, "reset_month") =>
           \A u \in Users :
              (\/ users[u].last_reset_date = NoDate
               \/ users[u].last_reset_date.period # req[p].today.period)
              => LET g == users[u].grant_balance
                     pos == IF g > 0 THEN g ELSE 0
                 IN /\ users'[u].grant_balance = 100 + (IF pos < 50 THEN pos ELSE 50)
                    /\ users'[u].sent_this_month = 0
                    /\ users'[u].last_reset_date = req[p].today
                    /\ users'[u].redeemable_balance = users[u].redeemable_balance
                    /\ users'[u].total_received = users[u].total_received
    ]_vars

\* C11 (as claimed): when the audit write of a Recognize, Endorse, Redeem or
\* ResetMonth whose mutation has committed fails, the operation still answers
\* ok and the committed accounts and events stay as they are.
C11_AuditFailureKeepsOutcome ==
    [][\A p \in Threads :
         (req[p].pc = "audit" /\ req'[p].pc = "done")
         => /\ req'[p].status = "ok"
            /\ UNCHANGED <<users, recognitions, endorsements, redemptions>>
    ]_vars

\* C12: in every reachable state, also after a handler was cut short between
\* any two of its steps, every audit entry describes a committed mutation: a
\* recognize, endorse or redeem entry names an event on record made by the
\* entry's user, and a reset_month entry is the admin's and counts no more
\* accounts than carry a reset date.
C12_AuditOnlyAfterCommit ==
    \A i \in 1..Len(audit_log) :
        LET a == audit_log[i]
        IN CASE a.action = "recognize" ->
                  /\ a.entity_id \in 1..Len(recognitions)
                  /\ recognitions[a.entity_id].sender_id = a.user_id
             [] a.action = "endorse" ->
                  /\ a.entity_id \in 1..Len(endorsements)
                  /\ endorsements[a.entity_id].endorser_id = a.user_id
             [] a.action = "redeem" ->
                  /\ a.entity_id \in 1..Len(redemptions)
                  /\ redemptions[a.entity_id].user_id = a.user_id
             [] a.action = "reset_month" ->
                  /\ a.user_id = AdminId
                  /\ a.users_reset <=
                       Cardinality({u \in Users : users[u].last_reset_date # NoDate})
             [] OTHER -> FALSE

\* C12 witness: a handler was cut short after its commit, so a recognition is
\* on record without an audit entry, next to audited mutations.
C12_Witness ==
    /\ faults = 0
    /\ Len(audit_log) >= 1
    /\ Len(recognitions) >
         Cardinality({i \in 1..Len(audit_log) : audit_log[i].action = "recognize"})
    /\ \E p \in Threads : req[p].pc = "done" /\ req[p].status = "Aborted"

\* C13 (as claimed): no step of any operation, in any interleaving, commits a
\* total_received of an account lower than the one committed before it.
C13_TotalReceivedNeverDecreases ==
    [][\A u \in Users : users'[u].total_received >= users[u].total_received]_vars

\* the accounts the request r acts for or on
Touched(r) ==
    IF r.op = "recognize" THEN {r.actor, r.receiver_id} ELSE {r.actor}

\* C14: whenever a step of a Recognize changes a committed account or the
\* recognitions, that one step writes the debit of the sender (grant_balance
\* and sent_this_month), the credit of the receiver (redeemable_balance and
\* total_received) and the recognition together; no step, and no handler cut
\* short, leaves one of them committed without the others.
C14_RecognizeCommitsBothRows ==
    [][\A p \in Threads :
         (/\ req[p].op = "recognize"
          /\ req'[p] # req[p]
          /\ (users' # users \/ recognitions' # recognitions))
         => LET s == req[p].actor
                r == req[p].receiver_id
                c == req[p].credits
            IN /\ users'[s].grant_balance = req[p].rows[s].grant_balance - c
               /\ users'[s].sent_this_month = req[p].rows[s].sent_this_month + c
               /\ users'[r].redeemable_balance = req[p].rows[r].redeemable_balance + c
               /\ users'[r].total_received = req[p].rows[r].total_received + c
               /\ recognitions' = Append(recognitions,
                     [sender_id |-> s, receiver_id |-> r, credits |-> c])
    ]_vars

\* C14 witness: a Recognize has committed and its handler was cut short
\* right after, with the debit and the credit both on the committed rows.
C14_Witness ==
    \E p \in Threads :
        /\ req[p].op = "recognize" /\ req[p].pc = "done"
        /\ req[p].status = "Aborted"
        /\ req[p].rec_id >= 1 /\ req[p].rec_id = Len(recognitions)
        /\ users[req[p].actor].grant_balance =
              req[p].rows[req[p].actor].grant_balance - req[p].credits
        /\ users[req[p].receiver_id].total_received =
              req[p].rows[req[p].receiver_id].total_received + req[p].credits

\* C15: no step of an Endorse, successful or refused, changes a counter or
\* the reset date of any account, a recognition or a redemption; its commit
\* adds exactly one endorsement, of the endorser for the recognition, and no
\* other step of it touches the endorsements.
C15_EndorseChangesNoBalance ==
    [][\A p \in Threads :
         (req'[p] # req[p] /\ (req[p].op = "endorse" \/ Starts(p, "endorse")))
         => /\ users' = users
            /\ recognitions' = recognitions
            /\ redemptions' = redemptions
            /\ endorsements' =
                 IF Commits(p, "endorse")
                   THEN Append(endorsements,
                          [recognition_id |-> req[p].rec_id,
                           endorser_id |-> req[p].actor])
                   ELSE endorsements
    ]_vars

\* C15 witness: one Endorse has committed and another one has been refused as
\* a duplicate, on accounts that have moved credits.
C15_Witness ==
    /\ Len(endorsements) >= 1
    /\ \E u \in Users : users[u].total_received > 0
    /\ \E p \in Threads :
          /\ req[p].op = "endorse" /\ req[p].pc = "done"
          /\ req[p].status = "DuplicateEndorsement"

C17_TopIsOrderedPrefix ==
    [][\A p \in Threads :
         Starts(p, "leaderboard") =>
           LET b == req'[p].board
               n == req'[p].limit
               listed == {b[i].id : i \in 1..Len(b)}
           IN /\ Len(b) <= n
              /\ Len(b) = n \/ listed = Users
              /\ \A i \in 1..Len(b) :
                    /\ b[i].id \in Users
                    /\ b[i].total_received = users[b[i].id].total_received
              /\ \A i, j \in 1..Len(b) :
                    i < j => \/ b[i].total_received > b[j].total_received
                             \/ /\ b[i].total_received = b[j].total_received
                                /\ b[i].id < b[j].id
              /\ \A u \in Users \ listed : \A i \in 1..Len(b) :
                    /\ users[u].total_received <= b[i].total_received
                    /\ users[u].total_received = b[i].total_received => u > b[i].id
    ]_vars

\* C17 witness: with two accounts at the same positive total_received, a
\* leaderboard of limit 1 lists the one with the lower id.
C17_Witness ==
    \E p \in Threads :
        /\ req[p].op = "leaderboard" /\ req[p].limit = 1
        /\ Len(req[p].board) = 1 /\ req[p].board[1].id = 1
        /\ req[p].board[1].total_received > 0
        /\ users[2].total_received = req[p].board[1].total_received

C19_InvalidAmountsRejected ==
    [][\A p \in Threads :
         /\ (/\ Starts(p, "recognize")
             /\ \/ req'[p].credits <= 0
                \/ req'[p].credits > 100
                \/ req'[p].receiver_id <= 0)
            => /\ req'[p].pc = "done"
               /\ req'[p].status = "ValidationError"
               /\ UNCHANGED db
         /\ (/\ Starts(p, "redeem")
             /\ \/ req'[p].credits <= 0
                \/ req'[p].credits > 10000)
            => /\ req'[p].pc = "done"
               /\ req'[p].status = "ValidationError"
               /\ UNCHANGED db
         /\ (req[p].pc = "done" /\ req[p].status = "ValidationError")
            => UNCHANGED db
    ]_vars

\* C19 witness: a Recognize of 101 credits has been rejected as invalid for a
\* sender whose grant_balance, 150 after a reset, would cover it.
C19_Witness ==
    \E p \in Threads :
        /\ req[p].op = "recognize" /\ req[p].pc = "done"
        /\ req[p].status = "ValidationError"
        /\ req[p].credits = 101
        /\ req[p].receiver_id \in Users \ {req[p].actor}
        /\ users[req[p].actor].grant_balance >= 101

\* C20 (as claimed): when a ResetMonth sweep and a Recognize have both read
\* the same committed row of the sender, due for a reset, and both have
\* committed, the sender's grant_balance and sent_this_month are those of one
\* of the two serial orders: Recognize then ResetMonth, or ResetMonth then
\* Recognize.
C20_ResetAndRecognizeSerialize ==
    \A p, q \in Threads :
        (/\ req[p].op = "recognize" /\ req[p].pc = "audit"
         /\ req[q].op = "reset_month" /\ req[q].pc = "audit"
         /\ req[p].rows[req[p].actor] = req[q].rows[req[p].actor]
         /\ ResetDue(req[q].rows[req[p].actor], req[q].today))
        => LET s == req[p].actor
               c == req[p].credits
               g == req[p].rows[s].grant_balance
               pos(x) == IF x > 0 THEN x ELSE 0
               carry(x) == IF pos(x) < 50 THEN pos(x) ELSE 50
           IN \/ /\ users[s].grant_balance = 100 + carry(g - c)
                 /\ users[s].sent_this_month = 0
              \/ /\ users[s].grant_balance = 100 + carry(g) - c
                 /\ users[s].sent_this_month = c

\* C21: when two ResetMonth sweeps of one period have both loaded the same
\* row of an account, due for a reset, with grant_balance g, and the first has
\* committed its reset of it (the committed row is the reset of the loaded one
\* on a day of the period), the commit of the second leaves the account at
\* grant_balance 100 + min(50, max(0, g)), sent_this_month 0 and
\* last_reset_date its today: the grant is not credited a second time.
C21_ConcurrentSweepsCreditOnce ==
    [][\A q \in Threads : \A u \in Users :
         (/\ Commits(q, "reset_month")
          /\ ResetDue(req[q].rows[u], req[q].today)
          /\ \E d \in Dates :
                /\ d.period = req[q].today.period
                /\ users[u] = ResetRow(req[q].rows[u], d))
         => LET g == req[q].rows[u].grant_balance
                pos == IF g > 0 THEN g ELSE 0
            IN /\ users[u].grant_balance = 100 + (IF pos < 50 THEN pos ELSE 50)
               /\ users'[u].grant_balance = users[u].grant_balance
               /\ users'[u].sent_this_month = 0
               /\ users'[u].last_reset_date = req[q].today
               /\ users'[u].redeemable_balance = users[u].redeemable_balance
               /\ users'[u].total_received = users[u].total_received
    ]_vars

\* C21 witness: two sweeps of one period, started on different days, have
\* both loaded the accounts before either committed and both have committed;
\* an account that had 10 credits of grant left stands at 110.
C21_Witness ==
    \E p, q \in Threads :
        /\ p # q
        /\ req[p].op = "reset_month" /\ req[p].pc = "audit"
        /\ req[q].op = "reset_month" /\ req[q].pc = "audit"
        /\ req[p].rows = req[q].rows
        /\ req[p].today.period = req[q].today.period
        /\ req[p].today.day # req[q].today.day
        /\ \E u \in Users :
              /\ req[p].rows[u].grant_balance = 10
              /\ users[u].grant_balance = 110
              /\ users[u].sent_this_month = 0

\* C22: a Recognize is refused with the error of the first precondition it
\* violates, in the order self-recognition, insufficient grant balance,
\* monthly limit exceeded, receiver not found, each with an error kind of
\* its own, whatever other preconditions it violates as well; it goes on to
\* its commit only when it violates none.
C22_FirstViolatedPrecondition ==
    [][\A p \in Threads :
         /\ Starts(p, "recognize") =>
              LET s == req'[p].actor
                  r == req'[p].receiver_id
                  c == req'[p].credits
              IN IF s = r
                   THEN req'[p].pc = "done" /\ req'[p].status = "SelfRecognition"
                 ELSE IF users[s].grant_balance < c
                   THEN req'[p].pc = "done"
                        /\ req'[p].status = "InsufficientGrantBalance"
                 ELSE IF users[s].sent_this_month + c > 100
                   THEN req'[p].pc = "done"
                        /\ req'[p].status = "MonthlyLimitExceeded"
                 ELSE req'[p].pc = "get_receiver"
         /\ (req[p].op = "recognize" /\ req[p].pc = "get_receiver"
                /\ req'[p] # req[p]) =>
              IF req[p].receiver_id \notin Users
                THEN req'[p].pc = "done" /\ req'[p].status = "ReceiverNotFound"
                ELSE req'[p].pc = "commit"
         /\ \A a, b \in RecognizeErrors : a # b => HttpError(a) # HttpError(b)
    ]_vars

\* C22 witness: a Recognize that has too little grant, would pass the monthly
\* limit and names a receiver that does not exist has been refused with
\* InsufficientGrantBalance.
C22_Witness ==
    \E p \in Threads :
        /\ req[p].op = "recognize" /\ req[p].pc = "done"
        /\ req[p].status = "InsufficientGrantBalance"
        /\ req[p].receiver_id \notin Users
        /\ users[req[p].actor].grant_balance < req[p].credits
        /\ users[req[p].actor].sent_this_month + req[p].credits > 100

\* the sequence t is the sequence s with n entries added at its end
Extends(t, s, n) == Len(t) = Len(s) + n /\ SubSeq(t, 1, Len(s)) = s

\* C23: in every step the recognitions, endorsements, redemptions and audit
\* entries on record stay as they are and in place, new ones being added at
\* the end only; the commit of a Recognize adds exactly one recognition and no
\* other step adds any; and every recognition on record has a sender other
\* than its receiver and credits > 0.
C23_HistoryAppendOnly ==
    [][/\ \E n \in {0, 1} :
             /\ Extends(recognitions', recognitions, n)
             /\ n = 1 <=> \E p \in Threads : Commits(p, "recognize")
       /\ \E n \in {0, 1} : Extends(endorsements', endorsements, n)
       /\ \E n \in {0, 1} : Extends(redemptions', redemptions, n)
       /\ \E n \in {0, 1} : Extends(audit_log', audit_log, n)
       /\ \A i \in 1..Len(recognitions') :
             /\ recognitions'[i].sender_id # recognitions'[i].receiver_id
             /\ recognitions'[i].credits > 0
    ]_vars

\* C23 witness: a recognition, a redemption and their audit entries are on
\* record, and a request with credits 0 has been turned away.
C23_Witness ==
    /\ Len(recognitions) >= 1
    /\ Len(redemptions) >= 1 /\ Len(audit_log) >= 2
    /\ \E p \in Threads :
          /\ req[p].op = "recognize" /\ req[p].pc = "done"
          /\ req[p].credits = 0 /\ req[p].status = "ValidationError"

\* C24: a ResetMonth called by anyone but user 1 is refused as forbidden
\* without a step that changes an account, an event or the audit log; the
\* accounts change in a step of a ResetMonth only when its caller is user 1,
\* and every reset_month audit entry is user 1's.
C24_ResetIsPrivileged ==
    [][\A p \in Threads :
         /\ (Starts(p, "reset_month") /\ req'[p].actor # 1)
            => /\ req'[p].pc = "done" /\ req'[p].status = "Forbidden"
               /\ UNCHANGED db
         /\ (req[p].op = "reset_month" /\ req[p].actor # 1 /\ req'[p] # req[p])
            => UNCHANGED db
         /\ \A i \in 1..Len(audit_log') :
               audit_log'[i].action = "reset_month" => audit_log'[i].user_id = 1
    ]_vars

\* C24 witness: user 2 has been refused a ResetMonth while every account was
\* still due for one and user 2 had spent part of its grant.
C24_Witness ==
    \E p \in Threads :
        /\ req[p].op = "reset_month" /\ req[p].pc = "done"
        /\ req[p].actor = 2 /\ req[p].status = "Forbidden"
        /\ \A u \in Users : users[u].last_reset_date = NoDate
        /\ users[2].grant_balance < 100

\* the sum of the credits of the events of the sequence s at the positions I
RECURSIVE SumCredits(_, _)
SumCredits(s, I) ==
    IF I = {} THEN 0
    ELSE LET i == CHOOSE j \in I : TRUE
         IN s[i].credits + SumCredits(s, I \ {i})

\* the credits of all recognitions received by u
ReceivedBy(u) ==
    SumCredits(recognitions,
               {i \in 1..Len(recognitions) : recognitions[i].receiver_id = u})

\* the credits of all redemptions of u
RedeemedBy(u) ==
    SumCredits(redemptions,
               {i \in 1..Len(redemptions) : redemptions[i].user_id = u})

\* C25 (as claimed): in every reachable state, for every account,
\* total_received is the sum of the credits of the recognitions it received
\* and redeemable_balance is total_received minus the sum of the credits of
\* its redemptions.
C25_AccountsReconcile ==
    \A u \in Users :
        /\ users[u].total_received = ReceivedBy(u)
        /\ users[u].redeemable_balance = users[u].total_received - RedeemedBy(u)

\* C26: when the operations run one after the other from fresh accounts,
\* every account keeps 100 <= grant_balance + sent_this_month <= 150, and a
\* Recognize refused for insufficient grant balance would have passed the
\* monthly limit as well.
C26_SerialGrantPlusSent ==
    [][/\ \A u \in Users :
             /\ users[u].grant_balance + users[u].sent_this_month >= 100
             /\ users[u].grant_balance + users[u].sent_this_month <= 150
             /\ users'[u].grant_balance + users'[u].sent_this_month >= 100
             /\ users'[u].grant_balance + users'[u].sent_this_month <= 150
             /\ users'[u].grant_balance <= 150
       /\ \A p \in Threads :
             (/\ Starts(p, "recognize")
              /\ req'[p].status = "InsufficientGrantBalance")
             => users[req'[p].actor].sent_this_month + req'[p].credits > 100
    ]_vars

\* C26 witness: an account reset to 150 has sent 90 and is refused a second
\* Recognize of 90 for insufficient grant balance, at 60 + 90 = 150.
C26_Witness ==
    \E p \in Threads :
        /\ req[p].op = "recognize" /\ req[p].pc = "done"
        /\ req[p].status = "InsufficientGrantBalance"
        /\ users[req[p].actor].grant_balance = 60
        /\ users[req[p].actor].sent_this_month = 90

\* C27: with audit writes that do not fail, the step that ends a Recognize,
\* Endorse, Redeem or ResetMonth with ok adds exactly one audit entry, with
\* the operation's action name and caller and, for ResetMonth, the count the
\* sweep returned; that count is the number of accounts the sweep read as
\* not yet reset for its period and that carry its date after its commit;
\* and no other step of any request, so none of a request refused by a
\* precondition, adds or changes an audit entry.
C27_OneAuditEntryPerSuccess ==
    [][\A p \in Threads :
         /\ (req'[p].status = "ok" /\ req[p].status # "ok")
            => /\ req[p].pc = "audit"
               /\ Extends(audit_log', audit_log, 1)
               /\ audit_log'[Len(audit_log')].action = req[p].op
               /\ audit_log'[Len(audit_log')].user_id = req[p].actor
               /\ req[p].op = "reset_month"
                  => audit_log'[Len(audit_log')].users_reset = req[p].ret
         /\ (req'[p] # req[p] /\ ~(req'[p].status = "ok" /\ req[p].status # "ok"))
            => audit_log' = audit_log
         /\ Commits(p, "reset_month")
            => req'[p].ret =
                 Cardinality({u \in Users :
                                /\ users'[u].last_reset_date = req[p].today
                                /\ req[p].rows[u].last_reset_date.period
                                       # req[p].today.period})
    ]_vars

\* C27 witness: the audit log holds the entry of a sweep that reset every
\* account and, after it, the entry of a sweep of the same period that reset
\* none, and a request has been refused without an entry.
C27_Witness ==
    /\ \E i, j \in 1..Len(audit_log) :
          /\ i < j
          /\ audit_log[i].action = "reset_month"
          /\ audit_log[i].users_reset = Cardinality(Users)
          /\ audit_log[j].action = "reset_month"
          /\ audit_log[j].users_reset = 0
    /\ Len(audit_log) = 2
    /\ \E p \in Threads :
          /\ req[p].pc = "done"
          /\ req[p].status \in RecognizeErrors
====
